---- MODULE Spec2Model ----
(***************************************************************************)
(* Model of src/trainer.py: the Trainer's callback registry, the run()     *)
(* loop (one optimizer update per batch, on_batch_end, iteration cap) and  *)
(* the collate_fn batch assembly (pad / truncate to a common length).      *)
(***************************************************************************)
EXTENDS Integers, Sequences, FiniteSets, TLC

\* ------------------------------------------------------------------ bounds
MaxIters == 2        \* largest configured max_iters
MaxData == 2         \* largest dataset length
MaxBatchSize == 2    \* largest config.batch_size
MaxHandlers == 2     \* most handlers registered in the whole registry
MaxRuns == 2         \* most run() invocations on one trainer
MaxSteps == MaxIters + 1   \* steps explored when no cap stops the loop
MaxItems == 2        \* most raw items handed to collate_fn at once
MaxLen == 2          \* longest raw input_ids sequence
MaxBlock == 3        \* largest model.block_size

\* config.max_iters = None (get_default_config) is the value -1 here.
None == 0 - 1

EventNames == {"on_batch_end", "on_epoch_end"}

\* Callbacks a user may register.  "A" and "B" only observe the trainer,
\* "R" raises, "L" writes trainer.config.max_iters = trainer.iter_num.
Handlers == {"A", "B", "R", "L"}

VARIABLES
    pc,            \* "idle" after __init__, "loop" inside run(), "done", "failed"
    config,        \* self.config: [max_iters, batch_size]
    dataset_len,   \* len(self.train_dataset)
    callbacks,     \* self.callbacks: event name -> list of handlers
    optimizer,     \* self.optimizer is not None
    iter_num,      \* self.iter_num
    opt_steps,     \* number of self.optimizer.step() calls on self.optimizer
    pulled,        \* batches pulled from train_loader in the current run()
    fired,         \* trigger_callbacks('on_batch_end') calls in the current run()
    pos,           \* batches already yielded by the current pass of train_loader
    step_ops,      \* model / optimizer calls made by the latest loop iteration
    invoked,       \* handler calls made by the latest trigger_callbacks, in order
    last_ev,       \* event name of that trigger_callbacks call
    trig_ctx,      \* "run" if run() made that call, "ext" if the user did, "none"
                   \* when none was made since the registry changed or run() began
    run_cap,       \* config.max_iters as it was when the current run() was entered
    runs,          \* number of run() invocations so far
    last_op,       \* latest add_callback / set_callback call and the list it found
    err,           \* exception raised by the latest call, "none" if it returned
    c_pc,          \* collate_fn: "ready" before the call, "done" after, "off"
    batch,         \* collate_fn: the list of (input_ids, label) items it is given
    block_size,    \* model.block_size
    out            \* collate_fn: what the call produced

vars == <<pc, config, dataset_len, callbacks, optimizer, iter_num, opt_steps,
          pulled, fired, pos, step_ops, invoked, last_ev, trig_ctx, run_cap,
          runs, last_op, err, c_pc, batch, block_size, out>>

\* The variables of the batch assembly.
cvars == <<c_pc, batch, block_size, out>>

\* ------------------------------------------------------- callback registry
\* defaultdict(list) with no key.
EmptyRegistry == [e \in {} |-> <<>>]

\* self.callbacks.get(onevent, []): a lookup that creates no entry.
Lookup(cb, onevent) == IF onevent \in DOMAIN cb THEN cb[onevent] ELSE <<>>

\* Total number of handlers held by the registry.
RegistrySize(cb) ==
    LET RECURSIVE Sum(_)
        Sum(S) == IF S = {} THEN 0
                  ELSE LET e == CHOOSE x \in S : TRUE
                       IN Len(cb[e]) + Sum(S \ {e})
    IN Sum(DOMAIN cb)

\* self.callbacks[onevent].append(callback): defaultdict creates [] on a miss.
Appended_DropsOthers(cb, onevent, callback) ==
    [e \in {onevent} |-> Append(Lookup(cb, onevent), callback)]

Appended_Prepends(cb, onevent, callback) ==
    [e \in DOMAIN cb \cup {onevent} |->
        IF e = onevent THEN <<callback>> \o Lookup(cb, onevent) ELSE cb[e]]

Appended(cb, onevent, callback) ==
    [e \in DOMAIN cb \cup {onevent} |->
        IF e = onevent THEN Append(Lookup(cb, onevent), callback) ELSE cb[e]]

\* self.callbacks[onevent] = [callback]
Replaced_Appends(cb, onevent, callback) ==
    [e \in DOMAIN cb \cup {onevent} |->
        IF e = onevent THEN Append(Lookup(cb, onevent), callback) ELSE cb[e]]

Replaced(cb, onevent, callback) ==
    [e \in DOMAIN cb \cup {onevent} |->
        IF e = onevent THEN <<callback>> ELSE cb[e]]

\* The handler list trigger_callbacks iterates, and the registry it leaves.
TriggerList(cb, onevent) == Lookup(cb, onevent)

RegistryAfterTrigger_Creates(cb, onevent) ==
    [e \in DOMAIN cb \cup {onevent} |-> Lookup(cb, e)]

RegistryAfterTrigger(cb, onevent) == cb

\* for callback in ...: callback(self).  Handlers run in list order; a handler
\* that raises ends the loop and the exception leaves trigger_callbacks.
RECURSIVE InvokeAll_Swallows(_, _, _, _, _)
InvokeAll_Swallows(hs, onevent, cfg, it, st) ==
    IF hs = <<>>
    THEN [log |-> <<>>, cfg |-> cfg, raised |-> FALSE]
    ELSE LET h == Head(hs)
             rec == [h |-> h, ev |-> onevent, iter_num |-> it, opt_steps |-> st]
             cfg2 == IF h = "L" THEN [cfg EXCEPT !.max_iters = it] ELSE cfg
             rest == InvokeAll_Swallows(Tail(hs), onevent, cfg2, it, st)
         IN [rest EXCEPT !.log = <<rec>> \o rest.log]

RECURSIVE InvokeAll(_, _, _, _, _)
InvokeAll(hs, onevent, cfg, it, st) ==
    IF hs = <<>>
    THEN [log |-> <<>>, cfg |-> cfg, raised |-> FALSE]
    ELSE LET h == Head(hs)
             rec == [h |-> h, ev |-> onevent, iter_num |-> it, opt_steps |-> st]
         IN IF h = "R"
            THEN [log |-> <<rec>>, cfg |-> cfg, raised |-> TRUE]
            ELSE LET cfg2 == IF h = "L" THEN [cfg EXCEPT !.max_iters = it]
                                        ELSE cfg
                     rest == InvokeAll(Tail(hs), onevent, cfg2, it, st)
                 IN [rest EXCEPT !.log = <<rec>> \o rest.log]

trigger_callbacks(cb, onevent, cfg, it, st) ==
    InvokeAll(TriggerList(cb, onevent), onevent, cfg, it, st)

\* ------------------------------------------------------------- the loop
\* Batches one pass of DataLoader(batch_size=bs, drop_last=False) yields.
NumBatches(n, bs) == (n + bs - 1) \div bs

\* config.max_iters is not None and self.iter_num >= config.max_iters
CapReached_IgnoresNone(cfg, it) == it >= cfg.max_iters

CapReached_Falsy(cfg, it) ==
    cfg.max_iters # None /\ cfg.max_iters # 0 /\ it >= cfg.max_iters

CapReached_Strict(cfg, it) == cfg.max_iters # None /\ it > cfg.max_iters

CapReached(cfg, it) == cfg.max_iters # None /\ it >= cfg.max_iters

\* The calls of one loop iteration before on_batch_end, in program order:
\* model(x, labels=labels), model.zero_grad, loss.backward,
\* clip_grad_norm_, self.optimizer.step.
StepOps_ZeroAfterBackward ==
    <<"forward", "backward", "zero_grad", "clip_grad_norm", "optimizer_step">>

StepOps_NoOptimizerStep ==
    <<"forward", "zero_grad", "backward", "clip_grad_norm">>

StepOps ==
    <<"forward", "zero_grad", "backward", "clip_grad_norm", "optimizer_step">>

\* How often the call x occurs in ops.
CountOf(ops, x) == Cardinality({i \in 1..Len(ops) : ops[i] = x})

\* self.iter_num += 1
Incremented_ByTwo(it) == it + 2

Incremented(it) == it + 1

\* The configuration the cap check reads: config is the object the handlers
\* were given, so the check sees what they wrote.
CheckedConfig_Stale(before, after) == before

CheckedConfig(before, after) == after

\* self.iter_num as the on_batch_end handlers of a step read it: the trigger
\* precedes self.iter_num += 1.
IterSeenByHandlers_PostInc(it) == it + 1

IterSeenByHandlers(it) == it

\* collate_fn has not been called.
NoOut == [ok |-> FALSE, err |-> "none", x |-> <<>>, labels |-> <<>>]

Init ==
    /\ c_pc = "off"
    /\ batch = <<>>
    /\ block_size = 0
    /\ out = NoOut
    /\ pc = "idle"
    /\ config \in [max_iters : {None} \cup (0..MaxIters),
                   batch_size : 0..MaxBatchSize]
    /\ dataset_len \in 1..MaxData
    /\ callbacks = EmptyRegistry
    /\ optimizer = FALSE
    /\ iter_num = 0
    /\ opt_steps = 0
    /\ pulled = 0
    /\ fired = 0
    /\ pos = 0
    /\ step_ops = <<>>
    /\ invoked = <<>>
    /\ last_ev = "none"
    /\ trig_ctx = "none"
    /\ run_cap = None
    /\ runs = 0
    /\ last_op = [op |-> "none", ev |-> "none", h |-> "none", before |-> <<>>]
    /\ err = "none"

\* Trainer.add_callback, called by the user before run().
add_callback(onevent, callback) ==
    /\ pc = "idle"
    /\ RegistrySize(callbacks) < MaxHandlers
    /\ callbacks' = Appended(callbacks, onevent, callback)
    /\ last_op' = [op |-> "add", ev |-> onevent, h |-> callback,
                   before |-> Lookup(callbacks, onevent)]
    /\ invoked' = <<>>
    /\ last_ev' = "none"
    /\ trig_ctx' = "none"
    /\ err' = "none"
    /\ UNCHANGED <<pc, config, dataset_len, optimizer, iter_num, opt_steps,
                   pulled, fired, pos, step_ops, run_cap, runs>>
    /\ UNCHANGED cvars

\* Trainer.set_callback, called by the user before run().
set_callback(onevent, callback) ==
    /\ pc = "idle"
    /\ RegistrySize(callbacks) - Len(Lookup(callbacks, onevent)) < MaxHandlers
    /\ callbacks' = Replaced(callbacks, onevent, callback)
    /\ last_op' = [op |-> "set", ev |-> onevent, h |-> callback,
                   before |-> Lookup(callbacks, onevent)]
    /\ invoked' = <<>>
    /\ last_ev' = "none"
    /\ trig_ctx' = "none"
    /\ err' = "none"
    /\ UNCHANGED <<pc, config, dataset_len, optimizer, iter_num, opt_steps,
                   pulled, fired, pos, step_ops, run_cap, runs>>
    /\ UNCHANGED cvars

\* Trainer.trigger_callbacks, called by the user before run().
trigger(onevent) ==
    /\ pc = "idle"
    /\ LET r == trigger_callbacks(callbacks, onevent, config, iter_num, opt_steps)
       IN /\ invoked' = r.log
          /\ config' = r.cfg
          /\ err' = IF r.raised THEN "CallbackError" ELSE "none"
    /\ callbacks' = RegistryAfterTrigger(callbacks, onevent)
    /\ last_ev' = onevent
    /\ trig_ctx' = "ext"
    /\ UNCHANGED <<pc, dataset_len, optimizer, iter_num, opt_steps,
                   pulled, fired, pos, step_ops, run_cap, runs, last_op>>
    /\ UNCHANGED cvars

\* run() up to the first pass of the while loop: the optimizer is acquired,
\* the DataLoader is built (it rejects batch_size <= 0), iter_num is reset.
RunStart ==
    /\ pc # "loop"
    /\ runs < MaxRuns
    /\ runs' = runs + 1
    /\ optimizer' = TRUE
    /\ opt_steps' = 0
    /\ pulled' = 0
    /\ fired' = 0
    /\ step_ops' = <<>>
    /\ run_cap' = config.max_iters
    /\ IF config.batch_size <= 0
       THEN /\ pc' = "failed"
            /\ err' = "ValueError"
            /\ UNCHANGED <<iter_num, pos>>
       ELSE /\ pc' = "loop"
            /\ err' = "none"
            /\ iter_num' = 0
            /\ pos' = 0
    /\ invoked' = <<>>
    /\ last_ev' = "none"
    /\ trig_ctx' = "none"
    /\ UNCHANGED <<config, dataset_len, callbacks, last_op>>
    /\ UNCHANGED cvars

\* One iteration of "for batch in train_loader": pull and assemble a batch,
\* forward, zero_grad, backward, clip, optimizer.step(), on_batch_end,
\* iter_num += 1, the cap check and, after a break, the check of the while.
Step ==
    /\ pc = "loop"
    /\ pos < NumBatches(dataset_len, config.batch_size)
    /\ iter_num < MaxSteps
    /\ LET st == opt_steps + CountOf(StepOps, "optimizer_step")
           r == trigger_callbacks(callbacks, "on_batch_end", config,
                                  IterSeenByHandlers(iter_num), st)
           it2 == Incremented(iter_num)
           cfg == CheckedConfig(config, r.cfg)
       IN /\ pulled' = pulled + 1
          /\ step_ops' = StepOps
          /\ opt_steps' = st
          /\ fired' = fired + 1
          /\ invoked' = r.log
          /\ config' = r.cfg
          /\ IF r.raised
             THEN /\ pc' = "failed"
                  /\ err' = "CallbackError"
                  /\ iter_num' = iter_num
                  /\ pos' = pos + 1
             ELSE /\ iter_num' = it2
                  /\ err' = "none"
                  /\ IF CapReached(cfg, it2)
                     THEN IF CapReached(cfg, it2)
                          THEN pc' = "done" /\ pos' = pos + 1
                          ELSE pc' = "loop" /\ pos' = 0
                     ELSE pc' = "loop" /\ pos' = pos + 1
    /\ callbacks' = RegistryAfterTrigger(callbacks, "on_batch_end")
    /\ last_ev' = "on_batch_end"
    /\ trig_ctx' = "run"
    /\ UNCHANGED <<dataset_len, optimizer, run_cap, runs, last_op>>
    /\ UNCHANGED cvars

\* The for loop is exhausted: the check of the while loop, then a new pass.
NextPass ==
    /\ pc = "loop"
    /\ pos = NumBatches(dataset_len, config.batch_size)
    /\ IF CapReached(config, iter_num)
       THEN pc' = "done" /\ pos' = pos
       ELSE pc' = "loop" /\ pos' = 0
    /\ UNCHANGED <<config, dataset_len, callbacks, optimizer, iter_num,
                   opt_steps, pulled, fired, step_ops, invoked, last_ev,
                   trig_ctx, run_cap, runs, last_op, err>>
    /\ UNCHANGED cvars

Next ==
    \/ \E e \in EventNames, h \in Handlers : add_callback(e, h)
    \/ \E e \in EventNames, h \in Handlers : set_callback(e, h)
    \/ \E e \in EventNames : trigger(e)
    \/ RunStart
    \/ Step
    \/ NextPass

Spec == Init /\ [][Next]_vars

\* ------------------------------------------------------------ observations
\* The handlers a trigger log names, in call order.
HandlerSeq(log) == [i \in 1..Len(log) |-> log[i].h]

\* hs up to and including its first raising handler.
RECURSIVE UpToRaise(_)
UpToRaise(hs) ==
    IF hs = <<>> THEN <<>>
    ELSE IF Head(hs) = "R" THEN <<"R">>
    ELSE <<Head(hs)>> \o UpToRaise(Tail(hs))

\* No on_batch_end handler writes config.max_iters.
NoCapWriter ==
    \A i \in 1..Len(Lookup(callbacks, "on_batch_end")) :
        Lookup(callbacks, "on_batch_end")[i] # "L"

\* C1: a run() entered with max_iters = K >= 1 (no handler writing the cap)
\* that has returned made exactly K steps: K batches pulled, K optimizer
\* updates, and iter_num = K.
C1_ReturnsAfterKSteps ==
    (pc = "done" /\ run_cap >= 1 /\ NoCapWriter)
        => (iter_num = run_cap /\ opt_steps = run_cap /\ pulled = run_cap)

\* A run with K = MaxIters that needed more than one pass has returned.
C1_Witness ==
    /\ pc = "done" /\ run_cap = MaxIters /\ NoCapWriter
    /\ iter_num = MaxIters
    /\ pulled > NumBatches(dataset_len, config.batch_size)

\* C2: a run() entered with max_iters = 0 that has returned pulled no batch,
\* applied no optimizer update, never fired on_batch_end and has iter_num = 0.
C2_ZeroCapRunsNoStep ==
    (pc = "done" /\ run_cap = 0 /\ NoCapWriter)
        => (pulled = 0 /\ opt_steps = 0 /\ fired = 0 /\ iter_num = 0)

C7_SetCallbackReplaces ==
    last_op.op = "set"
        => /\ last_op.ev \in DOMAIN callbacks
           /\ callbacks[last_op.ev] = <<last_op.h>>
           /\ (trig_ctx # "none" /\ last_ev = last_op.ev)
                  => HandlerSeq(invoked) = <<last_op.h>>

\* set_callback(E, "B") found the list <<"A">> and E was triggered afterwards.
C7_Witness ==
    /\ last_op.op = "set" /\ last_op.h = "B" /\ last_op.before = <<"A">>
    /\ trig_ctx # "none" /\ last_ev = last_op.ev
    /\ HandlerSeq(invoked) = <<"B">>

\* C8: when the latest registration is add_callback(E, f), the list of E is
\* the list it found followed by f; and every trigger invokes the handlers of
\* its event once per registration, in list order (up to one that raises).
C8_AddCallbackAppendsInOrder ==
    /\ last_op.op = "add"
           => /\ last_op.ev \in DOMAIN callbacks
              /\ callbacks[last_op.ev] = Append(last_op.before, last_op.h)
    /\ trig_ctx # "none"
           => /\ HandlerSeq(invoked) = UpToRaise(Lookup(callbacks, last_ev))
              /\ \A i \in 1..Len(invoked) : invoked[i].ev = last_ev

\* add_callback(E, "B") found <<"A">> and a trigger of E invoked A, then B.
C8_Witness ==
    /\ last_op.op = "add" /\ last_op.h = "B" /\ last_op.before = <<"A">>
    /\ trig_ctx # "none" /\ last_ev = last_op.ev
    /\ HandlerSeq(invoked) = <<"A", "B">>

\* C9: a trigger of an event that has no handler invokes nothing, raises
\* nothing and creates no registry entry: every entry of the registry holds
\* at least one handler.
C9_TriggerUnregisteredIsNoOp ==
    /\ \A e \in DOMAIN callbacks : callbacks[e] # <<>>
    /\ (trig_ctx # "none" /\ Lookup(callbacks, last_ev) = <<>>)
           => (invoked = <<>> /\ last_ev \notin DOMAIN callbacks
               /\ (trig_ctx = "ext" => err = "none"))

\* An event without handlers was triggered while another event has one.
C9_Witness ==
    /\ trig_ctx = "ext" /\ last_ev \notin DOMAIN callbacks
    /\ DOMAIN callbacks # {}
    /\ invoked = <<>> /\ err = "none"

\* C10: a trainer whose config.batch_size is not positive is rejected at
\* construction: run() is never entered on it and no optimizer is acquired.
C10_BadBatchSizeRejectedAtInit ==
    config.batch_size <= 0 => (runs = 0 /\ optimizer = FALSE)

\* ------------------------------------------------------------- collate_fn
\* collate_fn never inspects a token or a label: the pad value 0 and one
\* other token id, and two labels, stand for all of them.
Tokens == {0, 1}
Labels == {0, 1}

Min(a, b) == IF a < b THEN a ELSE b
Max(a, b) == IF a > b THEN a ELSE b

\* All sequences over S of length 0..n.
SeqsUpTo(S, n) == UNION {[1..k -> S] : k \in 0..n}

\* A raw item: (input_ids, label).
RawItems == [inp : SeqsUpTo(Tokens, MaxLen), lbl : Labels]

\* max_len = 0; for (inp, lbl) in batch: max_len = max(max_len, inp.size(0))
RECURSIVE ObservedMax(_)
ObservedMax(b) ==
    IF b = <<>> THEN 0
    ELSE LET m == ObservedMax(SubSeq(b, 1, Len(b) - 1))
         IN Max(m, Len(b[Len(b)].inp))

\* max_len = min(max_len, model.block_size)
TargetLen_NoClamp(b, bs) == ObservedMax(b)

TargetLen(b, bs) == Min(ObservedMax(b), bs)

\* inp[:n], a Python slice: a negative n counts from the end.
Truncated_KeepsTail(inp, n) ==
    SubSeq(inp, Len(inp) - Min(n, Len(inp)) + 1, Len(inp))

Truncated(inp, n) ==
    IF n >= 0 THEN SubSeq(inp, 1, Min(n, Len(inp)))
    ELSE SubSeq(inp, 1, Max(Len(inp) + n, 0))

\* torch.cat([inp, torch.zeros(pad_size, dtype=torch.long)], dim=0)
Padded_Left(inp, pad_size) == [i \in 1..pad_size |-> 0] \o inp

Padded(inp, pad_size) == inp \o [i \in 1..pad_size |-> 0]

\* The body of the second loop of collate_fn for one item.
AssembleRow(inp, max_len) ==
    IF Len(inp) > max_len
    THEN Truncated(inp, max_len)
    ELSE LET pad_size == max_len - Len(inp)
         IN IF pad_size > 0 THEN Padded(inp, pad_size) ELSE inp

\* torch.cat of the (1, L) rows along dim 0 and torch.stack of the labels:
\* both raise on an empty list, and cat raises on rows of unequal length.
Stacked_AllowsEmpty(rows, lbls) ==
    IF \E i, j \in 1..Len(rows) : Len(rows[i]) # Len(rows[j])
    THEN [ok |-> FALSE, err |-> "RuntimeError", x |-> <<>>, labels |-> <<>>]
    ELSE [ok |-> TRUE, err |-> "none", x |-> rows, labels |-> lbls]

Stacked(rows, lbls) ==
    IF rows = <<>> \/ \E i, j \in 1..Len(rows) : Len(rows[i]) # Len(rows[j])
    THEN [ok |-> FALSE, err |-> "RuntimeError", x |-> <<>>, labels |-> <<>>]
    ELSE [ok |-> TRUE, err |-> "none", x |-> rows, labels |-> lbls]

collate_fn(b, bs) ==
    LET max_len == TargetLen(b, bs)
        rows == [i \in 1..Len(b) |-> AssembleRow(b[i].inp, max_len)]
        lbls == [i \in 1..Len(b) |-> b[i].lbl]
    IN Stacked(rows, lbls)

\* The trainer as __init__ leaves it, with the default configuration.
InitCollate ==
    /\ c_pc = "ready"
    /\ batch \in SeqsUpTo(RawItems, MaxItems)
    /\ block_size \in 0..MaxBlock
    /\ out = NoOut
    /\ pc = "idle"
    /\ config = [max_iters |-> None, batch_size |-> MaxBatchSize]
    /\ dataset_len = 1
    /\ callbacks = EmptyRegistry
    /\ optimizer = FALSE
    /\ iter_num = 0
    /\ opt_steps = 0
    /\ pulled = 0
    /\ fired = 0
    /\ pos = 0
    /\ step_ops = <<>>
    /\ invoked = <<>>
    /\ last_ev = "none"
    /\ trig_ctx = "none"
    /\ run_cap = None
    /\ runs = 0
    /\ last_op = [op |-> "none", ev |-> "none", h |-> "none", before |-> <<>>]
    /\ err = "none"

\* The DataLoader hands a list of items to collate_fn.
Collate ==
    /\ c_pc = "ready"
    /\ out' = collate_fn(batch, block_size)
    /\ c_pc' = "done"
    /\ UNCHANGED <<batch, block_size>>
    /\ UNCHANGED <<pc, config, dataset_len, callbacks, optimizer, iter_num,
                   opt_steps, pulled, fired, pos, step_ops, invoked, last_ev,
                   trig_ctx, run_cap, runs, last_op, err>>

NextCollate == Collate

SpecCollate == InitCollate /\ [][NextCollate]_vars

\* The longest raw sequence of a non-empty batch.
MaxRawLen(b) ==
    CHOOSE m \in {Len(b[i].inp) : i \in 1..Len(b)} :
        \A i \in 1..Len(b) : Len(b[i].inp) <= m

\* min(max raw length in batch, block_size)
ExpectedLen == Min(MaxRawLen(batch), block_size)

\* C4: for a non-empty batch collate_fn returns one row per item, and every
\* row has length min(max raw length in the batch, block_size).
C4_RowsHaveTargetLen ==
    (c_pc = "done" /\ batch # <<>>)
        => /\ out.ok
           /\ Len(out.x) = Len(batch)
           /\ \A i \in 1..Len(out.x) : Len(out.x[i]) = ExpectedLen

\* Two items of different raw lengths, the longer one above block_size.
C4_Witness ==
    /\ c_pc = "done" /\ Len(batch) = 2 /\ out.ok
    /\ Len(batch[1].inp) < block_size /\ Len(batch[2].inp) > block_size
    /\ Len(out.x[1]) = block_size /\ Len(out.x[2]) = block_size

\* C5: the row of an item longer than the target length is exactly the first
\* target-length elements of its raw sequence.
C5_TruncationKeepsPrefix ==
    (c_pc = "done" /\ batch # <<>>)
        => /\ out.ok
           /\ \A i \in 1..Len(batch) :
                  Len(batch[i].inp) > ExpectedLen
                      => out.x[i] = SubSeq(batch[i].inp, 1, ExpectedLen)

\* An item whose dropped tail differs from its kept prefix was truncated.
C5_Witness ==
    /\ c_pc = "done" /\ out.ok /\ Len(batch) >= 1
    /\ batch[1].inp = <<0, 1>> /\ block_size = 1
    /\ out.x[1] = <<0>>

\* C6: the row of an item shorter than the target length is its raw sequence
\* followed by (target length - length) zeros; an item of exactly the target
\* length is unchanged.
C6_PaddingAppendsZeros ==
    (c_pc = "done" /\ batch # <<>>)
        => /\ out.ok
           /\ \A i \in 1..Len(batch) :
                  /\ Len(batch[i].inp) < ExpectedLen
                         => out.x[i] = batch[i].inp \o
                                [k \in 1..(ExpectedLen - Len(batch[i].inp)) |-> 0]
                  /\ Len(batch[i].inp) = ExpectedLen
                         => out.x[i] = batch[i].inp

\* An empty item was padded next to an item of exactly the target length.
C6_Witness ==
    /\ c_pc = "done" /\ out.ok /\ Len(batch) = 2
    /\ batch[1].inp = <<>> /\ batch[2].inp = <<0, 1>> /\ block_size = 3
    /\ out.x[1] = <<0, 0>> /\ out.x[2] = <<0, 1>>

\* ------------------------------------------------------ the run() lifecycle
\* C11: once run() has returned the trainer stays stopped: no later step is
\* executed on it and iter_num is not reset.
C11_StoppedIsTerminal ==
    [][pc = "done" => (pc' = "done" /\ iter_num' = iter_num
                       /\ pulled' = pulled)]_vars

\* Position of the call x in ops.
IndexOf(ops, x) == CHOOSE i \in 1..Len(ops) : ops[i] = x

\* The on_batch_end list holds a handler that raises.
HasRaiser ==
    \E i \in 1..Len(Lookup(callbacks, "on_batch_end")) :
        Lookup(callbacks, "on_batch_end")[i] = "R"

\* C12: when an on_batch_end handler raises, the run has failed with that
\* error at its first step: the handlers before it and the raising one were
\* invoked, those after it were not, no further batch was pulled and no
\* further optimizer step was made.
C12_RaisingHandlerAbortsRun ==
    (HasRaiser /\ pulled >= 1)
        => /\ pc = "failed" /\ err = "CallbackError"
           /\ pulled = 1 /\ opt_steps = 1 /\ fired = 1
           /\ Len(invoked) >= 1
           /\ Len(invoked) <= Len(Lookup(callbacks, "on_batch_end"))
           /\ invoked[Len(invoked)].h = "R"
           /\ \A i \in 1..Len(invoked) :
                  /\ invoked[i].h = Lookup(callbacks, "on_batch_end")[i]
                  /\ i < Len(invoked) => invoked[i].h # "R"

\* The raising handler was registered before another one, and a run failed.
C12_Witness ==
    /\ pc = "failed" /\ err = "CallbackError" /\ pulled = 1
    /\ Lookup(callbacks, "on_batch_end") = <<"R", "A">>
    /\ HandlerSeq(invoked) = <<"R">>

\* C13: a run entered with max_iters = None whose handlers do not write the
\* cap never returns: it is never stopped, and while it is in the loop either
\* a batch of the current pass or a new pass is available, across passes.
C13_NoCapNeverStops ==
    (runs >= 1 /\ run_cap = None /\ NoCapWriter)
        => /\ pc # "done"
           /\ pc = "loop"
                  => /\ pos <= NumBatches(dataset_len, config.batch_size)
                     /\ iter_num = pulled

\* An uncapped run is still in the loop after more steps than one pass has.
C13_Witness ==
    /\ pc = "loop" /\ run_cap = None /\ NoCapWriter
    /\ iter_num = MaxSteps
    /\ pulled > NumBatches(dataset_len, config.batch_size)

\* C14: the calls of a step are forward, zero_grad, backward, clip_grad_norm,
\* optimizer_step, each exactly once and in this order.
C14_StepOrder ==
    pulled >= 1
        => /\ Len(step_ops) = 5
           /\ \A x \in {"forward", "zero_grad", "backward", "clip_grad_norm",
                        "optimizer_step"} : CountOf(step_ops, x) = 1
           /\ IndexOf(step_ops, "forward") < IndexOf(step_ops, "zero_grad")
           /\ IndexOf(step_ops, "zero_grad") < IndexOf(step_ops, "backward")
           /\ IndexOf(step_ops, "backward") < IndexOf(step_ops, "clip_grad_norm")
           /\ IndexOf(step_ops, "clip_grad_norm")
                  < IndexOf(step_ops, "optimizer_step")

\* The second step of a run has been made.
C14_Witness ==
    pulled = 2 /\ opt_steps = 2 /\ step_ops # <<>>

\* C15: when an on_batch_end handler of step k has written config.max_iters
\* (to the iter_num it read) and no handler raised, the run has stopped at
\* the end of that same step: no further batch was pulled.
C15_CapWriteSeenBySameStep ==
    (trig_ctx = "run" /\ err = "none"
         /\ \E i \in 1..Len(invoked) : invoked[i].h = "L")
        => /\ pc = "done"
           /\ pulled = fired /\ pulled = iter_num
           /\ config.max_iters <= iter_num
           /\ \A i \in 1..Len(invoked) : iter_num = invoked[i].iter_num + 1

\* A run entered with the largest cap stopped at its first step after the
\* handler lowered the cap.
C15_Witness ==
    /\ pc = "done" /\ run_cap = MaxIters /\ trig_ctx = "run"
    /\ HandlerSeq(invoked) = <<"L">>
    /\ pulled = 1 /\ config.max_iters = 0

\* C16: iter_num is 0 after construction and never negative; it changes only
\* by being set to 0 when run() starts or by growing by 1 in a step; every
\* completed step grows it by exactly 1; a pass boundary leaves it unchanged.
C16_IterNumMonotonic ==
    /\ iter_num = 0
    /\ [][/\ iter_num' >= 0
          /\ iter_num' # iter_num
                 => \/ (runs' = runs + 1 /\ iter_num' = 0)
                    \/ (pc = "loop" /\ pulled' = pulled + 1
                        /\ iter_num' = iter_num + 1)
          /\ (pc = "loop" /\ pulled' = pulled + 1 /\ pc' # "failed")
                 => iter_num' = iter_num + 1
          /\ (pc = "loop" /\ pulled' = pulled) => iter_num' = iter_num]_vars

\* A second run has counted two steps across a pass boundary and returned.
C16_Witness ==
    /\ runs = 2 /\ pc = "done" /\ iter_num = 2
    /\ pulled > NumBatches(dataset_len, config.batch_size)

\* C17 as stated: a run entered with max_iters = 0 never stops by itself.
C17_ZeroCapNeverStops ==
    (runs >= 1 /\ run_cap = 0) => pc # "done"

\* C17 amended: a run entered with max_iters = 0 makes exactly one step and
\* then stops by itself, with iter_num = 1.
C17_ZeroCapStopsAfterOneStep ==
    (runs >= 1 /\ run_cap = 0)
        => /\ pc = "loop" => pulled = 0
           /\ pc = "done" => (pulled = 1 /\ opt_steps = 1 /\ iter_num = 1)

\* A run entered with max_iters = 0 and no handler has returned.
C17_Witness ==
    /\ pc = "done" /\ run_cap = 0 /\ callbacks = EmptyRegistry
    /\ pulled = 1 /\ iter_num = 1

\* C18: the registry is empty after construction; it changes only in an
\* add_callback or set_callback call (never in trigger_callbacks or run()),
\* and such a call leaves the entry of every other event as it was.
C18_RegistryFrame ==
    /\ callbacks = EmptyRegistry
    /\ [][callbacks' # callbacks
             => /\ pc = "idle" /\ pc' = "idle" /\ runs' = runs
                /\ trig_ctx' = "none"
                /\ last_op'.op \in {"add", "set"}
                /\ \A e \in EventNames \ {last_op'.ev} :
                       /\ (e \in DOMAIN callbacks') = (e \in DOMAIN callbacks)
                       /\ Lookup(callbacks', e) = Lookup(callbacks, e)]_vars

\* A run has fired on_batch_end and returned with handlers on both events.
C18_Witness ==
    /\ pc = "done" /\ fired >= 1
    /\ DOMAIN callbacks = EventNames
    /\ \A e \in EventNames : Len(callbacks[e]) = 1

C20_CountersAgree ==
    /\ (runs >= 1 /\ pc \in {"loop", "done"})
           => (opt_steps = fired /\ fired = iter_num)
    /\ (pc = "failed" /\ err = "CallbackError")
           => (opt_steps = fired /\ fired = pulled /\ iter_num = opt_steps - 1)

\* A handler raised in the first step of a run.
C20_Witness ==
    /\ pc = "failed" /\ err = "CallbackError"
    /\ opt_steps = 1 /\ fired = 1 /\ iter_num = 0

====
